---- MODULE Spec2Model ----
(***************************************************************************)
(* A model of ampligraph/evaluation/protocol.py: the train/test splitter,  *)
(* the ID mapper, the unseen-entity filter, the evaluation protocol and    *)
(* the corruption generators.  Every operation is translated from its      *)
(* source; random draws and the embedding model's answers are              *)
(* nondeterministic choices.                                               *)
(***************************************************************************)
EXTENDS Integers, Sequences, FiniteSets, TLC

VARIABLES
    pc,               \* position of the running call
    X,                \* the triples passed to the call
    test_size,        \* train_test_split_no_unseen: requested test size (after int conversion)
    dict_subs,        \* train_test_split_no_unseen: remaining count per subject
    dict_objs,        \* train_test_split_no_unseen: remaining count per object
    dict_rels,        \* train_test_split_no_unseen: remaining count per relation
    idx_test,         \* train_test_split_no_unseen: accepted row indices (0-based)
    ent_to_idx,       \* entity -> internal id (the model's, or create_mappings')
    rel_to_idx,       \* relation -> internal id
    strict,           \* the caller's strict flag
    filter_triples,   \* evaluate_performance: filter triples, or NoArg
    rank_against_ent, \* evaluate_performance: candidate restriction, or NoArg
    corrupt_side,     \* 's', 'o', 's+o' (or an invalid value)
    X_test,           \* evaluate_performance: the local X_test
    ranks,            \* evaluate_performance: the local ranks
    calls,            \* the calls made on the embedding model, in order
    entities,         \* entities_for_corruption / all_entities
    eta,              \* generate_corruptions_for_fit: corruptions per triple
    tables,           \* generate_corruptions_for_eval: the three prime lookup tables, or NoArg
    keep_subj_mask,   \* generate_corruptions_for_fit: 1 where the subject is kept
    replacements,     \* generate_corruptions_for_fit: the drawn replacement values
    in_dict,          \* gridsearch_next_hyperparam: in_dict (select_best_model_ranking's param_grid)
    model_name,       \* model_class.name
    use_default_protocol, \* select_best_model_ranking: evaluate 's' then 'o'
    mrrs,             \* select_best_model_ranking: curr_mrr of each configuration processed
    best_mrr_train,   \* select_best_model_ranking: the local best_mrr_train
    best_model,       \* select_best_model_ranking: the local best_model (None, or the
                      \* model built in that iteration of the loop)
    best_params,      \* select_best_model_ranking: the local best_params
    ret               \* what the call returned or raised

vars == <<pc, X, test_size, dict_subs, dict_objs, dict_rels, idx_test,
          ent_to_idx, rel_to_idx, strict, filter_triples, rank_against_ent,
          corrupt_side, X_test, ranks, calls, entities, eta, tables,
          keep_subj_mask, replacements, in_dict, model_name,
          use_default_protocol, mrrs, best_mrr_train, best_model, best_params,
          ret>>

splitVars == <<test_size, dict_subs, dict_objs, dict_rels, idx_test>>
modelVars == <<ent_to_idx, rel_to_idx>>
evalVars  == <<strict, filter_triples, rank_against_ent, X_test, ranks, calls>>
corrVars  == <<entities, eta, tables, keep_subj_mask, replacements>>
gridVars  == <<in_dict, model_name, use_default_protocol, mrrs,
               best_mrr_train, best_model, best_params>>

(***************************************************************************)
(* Bounds of the model.                                                    *)
(***************************************************************************)
MaxRows == 4         \* rows of a dataset given to the splitter
MaxTestSize == 2     \* largest integer test_size

\* Python's None, as the default of dict.get and of optional arguments.
None == -1
\* An optional argument left at its default None (also the value of the
\* variables a call does not use), and one that was given.
NoArg == [given |-> FALSE]
Arg(v) == [given |-> TRUE, val |-> v]

\* The variables of the grid search while another operation runs.
GridIdle ==
    /\ in_dict = NoArg /\ model_name = "" /\ use_default_protocol = FALSE
    /\ mrrs = <<>> /\ best_mrr_train = 0 /\ best_model = None
    /\ best_params = NoArg

(***************************************************************************)
(* Sequences, numpy helpers.                                               *)
(***************************************************************************)
Range(s) == {s[i] : i \in DOMAIN s}

SeqsUpTo(S, n) == UNION {[1..k -> S] : k \in 0..n}

Min(S) == CHOOSE m \in S : \A x \in S : m <= x

RECURSIVE SortedSeq(_)
\* The elements of a finite set of integers, ascending.
SortedSeq(S) == IF S = {} THEN <<>> ELSE <<Min(S)>> \o SortedSeq(S \ {Min(S)})

\* X[:, c] (c is 1-based here: 1 subject, 2 relation, 3 object).
Column(A, c) == [i \in DOMAIN A |-> A[i][c]]

\* np.unique(col): the sorted distinct values.
np_unique(col) == SortedSeq(Range(col))

\* dict(zip(*np.unique(col, return_counts=True))): value -> occurrences.
CountDict(col) ==
    [v \in Range(col) |-> Cardinality({i \in DOMAIN col : col[i] = v})]

\* A[idx, :] for a sequence idx of 0-based row indices.
Take(A, idx) == [k \in DOMAIN idx |-> A[idx[k] + 1]]

(***************************************************************************)
(* train_test_split_no_unseen                                              *)
(***************************************************************************)
\* The rows a dataset is drawn from: two entities, two relations.
SplitTriples ==
    {<<1, 1, 1>>, <<1, 1, 2>>, <<2, 1, 1>>, <<2, 2, 2>>, <<1, 2, 1>>}

\* test_size arguments: an int, or the float 0.5 (exact in binary).
TestSizeArgs ==
    [isfloat : {FALSE}, num : 0..MaxTestSize, den : {1}]
        \cup [isfloat : {TRUE}, num : {1}, den : {2}]

\* if type(test_size) is float: test_size = int(len(X) * test_size)
IntTestSize(A, ts) ==
    IF ts.isfloat THEN (Len(A) * ts.num) \div ts.den ELSE ts.num

InitSplit ==
    /\ pc = "split_loop"
    /\ X \in SeqsUpTo(SplitTriples, MaxRows)
    /\ \E ts \in TestSizeArgs : test_size = IntTestSize(X, ts)
    /\ dict_subs = CountDict(Column(X, 1))
    /\ dict_rels = CountDict(Column(X, 2))
    /\ dict_objs = CountDict(Column(X, 3))
    /\ idx_test = <<>>
    /\ ent_to_idx = NoArg /\ rel_to_idx = NoArg
    /\ strict = FALSE /\ filter_triples = NoArg /\ rank_against_ent = NoArg
    /\ corrupt_side = "s+o" /\ X_test = NoArg /\ ranks = <<>> /\ calls = <<>>
    /\ entities = NoArg /\ eta = 0 /\ tables = NoArg
    /\ keep_subj_mask = <<>> /\ replacements = <<>>
    /\ GridIdle
    /\ ret = NoArg

\* The guard with >= 1 in place of > 1: a value's last row may leave train.
CanAcceptGE(i) ==
    /\ dict_subs[X[i + 1][1]] >= 1
    /\ dict_objs[X[i + 1][3]] >= 1
    /\ dict_rels[X[i + 1][2]] >= 1

\* The guard of line 56, for the drawn 0-based index i.
CanAccept(i) ==
    /\ dict_subs[X[i + 1][1]] > 1
    /\ dict_objs[X[i + 1][3]] > 1
    /\ dict_rels[X[i + 1][2]] > 1

\* One iteration of the while loop whose draw passes the guard.
SplitAccept ==
    /\ pc = "split_loop"
    /\ Len(idx_test) < test_size
    /\ \E i \in 0..(Len(X) - 1) :
        /\ CanAccept(i)
        /\ dict_subs' = [dict_subs EXCEPT ![X[i + 1][1]] = @ - 1]
        /\ dict_objs' = [dict_objs EXCEPT ![X[i + 1][3]] = @ - 1]
        /\ dict_rels' = [dict_rels EXCEPT ![X[i + 1][2]] = @ - 1]
        /\ idx_test' = Append(idx_test, i)
    /\ UNCHANGED <<pc, X, test_size, modelVars, evalVars, corrupt_side, corrVars, gridVars, ret>>

\* One iteration whose draw fails the guard: nothing changes.
SplitReject ==
    /\ pc = "split_loop"
    /\ Len(idx_test) < test_size
    /\ \E i \in 0..(Len(X) - 1) : ~CanAccept(i)
    /\ UNCHANGED vars

\* rnd.randint(0) on an empty dataset raises ValueError.
SplitEmpty ==
    /\ pc = "split_loop"
    /\ Len(idx_test) < test_size
    /\ Len(X) = 0
    /\ pc' = "raised"
    /\ ret' = [error |-> "ValueError", val |-> <<>>]
    /\ UNCHANGED <<X, splitVars, modelVars, evalVars, corrupt_side, corrVars, gridVars>>

\* np.setdiff1d(np.arange(len(X)), idx_test): sorted, unique.
idx_train == SortedSeq((0..(Len(X) - 1)) \ Range(idx_test))

\* Lines 61-65: the loop is over, build and return the two arrays.
SplitReturn ==
    /\ pc = "split_loop"
    /\ ~(Len(idx_test) < test_size)
    /\ pc' = "returned"
    /\ ret' = [train |-> Take(X, idx_train), test |-> Take(X, idx_test)]
    /\ UNCHANGED <<X, splitVars, modelVars, evalVars, corrupt_side, corrVars, gridVars>>

NextSplit == SplitAccept \/ SplitReject \/ SplitEmpty \/ SplitReturn

SpecSplit == InitSplit /\ [][NextSplit]_vars

\* The loop under fair drawing: rnd.randint(len(X)) draws every row with the
\* same positive probability in every iteration, so a row that keeps passing
\* the guard is eventually drawn.
SpecSplitFair == SpecSplit /\ WF_vars(SplitAccept)

\* C3 (loop part): every remaining count is at least 1 and at most the number
\* of rows with that value (in that column) that are still in train.
CountsBoundTrain ==
    /\ \A v \in DOMAIN dict_subs :
        /\ dict_subs[v] >= 1
        /\ dict_subs[v] <= Cardinality({k \in DOMAIN idx_train : X[idx_train[k] + 1][1] = v})
    /\ \A v \in DOMAIN dict_rels :
        /\ dict_rels[v] >= 1
        /\ dict_rels[v] <= Cardinality({k \in DOMAIN idx_train : X[idx_train[k] + 1][2] = v})
    /\ \A v \in DOMAIN dict_objs :
        /\ dict_objs[v] >= 1
        /\ dict_objs[v] <= Cardinality({k \in DOMAIN idx_train : X[idx_train[k] + 1][3] = v})

\* C3: whenever train_test_split_no_unseen returns, every subject, relation
\* and object of the returned test set occurs in the same column of some row
\* of the returned train set; and throughout the loop each remaining count
\* is >= 1 and a lower bound on the rows with that value left in train.
C3_TestValuesOccurInTrain ==
    /\ pc = "split_loop" => CountsBoundTrain
    /\ pc = "returned" =>
          \A k \in DOMAIN ret.test : \A c \in 1..3 :
              \E j \in DOMAIN ret.train : ret.train[j][c] = ret.test[k][c]

\* C3 witness: a split returned a test set of two different triples.
C3_Witness ==
    /\ pc = "returned"
    /\ Len(ret.test) >= 2
    /\ ret.test[1] # ret.test[2]

\* C4 (as claimed): the returned pair is a partition of the input rows: the
\* test set is test_size distinct row indices, the train set is every other
\* row, and len(train) + len(test) = len(input).
C4_ReturnsPartition ==
    pc = "returned" =>
        /\ Len(idx_test) = test_size
        /\ \A a, b \in DOMAIN idx_test : a # b => idx_test[a] # idx_test[b]
        /\ Range(idx_train) = (0..(Len(X) - 1)) \ Range(idx_test)
        /\ Len(ret.train) + Len(ret.test) = Len(X)

(***************************************************************************)
(* ID mapper: create_mappings, to_idx                                      *)
(***************************************************************************)
\* Raw identifiers.  Entities and relations share one identifier space (the
\* columns of one array); np.unique orders them.
Identifiers == {1, 2, 3}
RawTriples == Identifiers \X Identifiers \X Identifiers

\* dict(zip(unique, range(len(unique)))): a later pair overwrites an earlier
\* one with the same key.
ZipRange(unique) ==
    [v \in Range(unique) |->
        (CHOOSE i \in DOMAIN unique :
            /\ unique[i] = v
            /\ \A j \in DOMAIN unique : unique[j] = v => j <= i) - 1]

\* _create_unique_mappings: returns (rel_to_idx, obj_to_idx).
create_unique_mappings(unique_obj, unique_rel) ==
    <<ZipRange(unique_rel), ZipRange(unique_obj)>>

\* create_mappings(X): returns (rel_to_idx, ent_to_idx).
create_mappings(A) ==
    LET unique_ent == np_unique(Column(A, 1) \o Column(A, 3))
        unique_rel == np_unique(Column(A, 2))
    IN  create_unique_mappings(unique_ent, unique_rel)

\* d.get(k): None for a missing key.
Get(d, k) == IF k \in DOMAIN d THEN d[k] ELSE None

Raised(e) == [error |-> e, val |-> <<>>]
Returned(v) == [error |-> "ok", val |-> v]

\* np.vectorize(d.get)(col).  vectorize refuses a size 0 input (no otypes);
\* it takes the output type from the first element's result: an int makes
\* an int array, which a later None cannot enter (TypeError), a None makes
\* an object array that holds whatever get returns.
VectorizeGet(d, col) ==
    IF Len(col) = 0 THEN Raised("ValueError")
    ELSE LET out == [i \in DOMAIN col |-> Get(d, col[i])]
         IN  IF out[1] = None THEN Returned(out)
             ELSE IF \E i \in DOMAIN out : out[i] = None THEN Raised("TypeError")
             ELSE Returned(out)

\* _convert_to_idx(X, ent_to_idx, rel_to_idx, obj_to_idx)
convert_to_idx(A, e2i, r2i, o2i) ==
    LET x_idx_s == VectorizeGet(e2i, Column(A, 1))
        x_idx_p == VectorizeGet(r2i, Column(A, 2))
        x_idx_o == VectorizeGet(o2i, Column(A, 3))
    IN  IF x_idx_s.error # "ok" THEN x_idx_s
        ELSE IF x_idx_p.error # "ok" THEN x_idx_p
        ELSE IF x_idx_o.error # "ok" THEN x_idx_o
        ELSE Returned([i \in DOMAIN A |->
                          <<x_idx_s.val[i], x_idx_p.val[i], x_idx_o.val[i]>>])

\* An ndarray of triples: ndim 2 holds rows, ndim 1 holds one triple.
Array2(rows) == [ndim |-> 2, data |-> rows]
Array1(triple) == [ndim |-> 1, data |-> triple]

\* to_idx(X, ent_to_idx, rel_to_idx): a single triple is promoted to one row.
to_idx(A, e2i, r2i) ==
    LET rows == IF A.ndim = 1 THEN <<A.data>> ELSE A.data
    IN  convert_to_idx(rows, e2i, r2i, e2i)

(***************************************************************************)
(* filter_unseen_entities                                                  *)
(***************************************************************************)
\* np.isin(X, ent_unseen).any(axis=1) for row t: any of its three cells.
MaskUnseen(t, ent_unseen) == \E c \in 1..3 : t[c] \in ent_unseen

RECURSIVE Filter(_, _)
\* A[~mask]: the rows whose mask is false, in order.
Filter(A, ent_unseen) ==
    IF A = <<>> THEN <<>>
    ELSE IF MaskUnseen(Head(A), ent_unseen) THEN Filter(Tail(A), ent_unseen)
    ELSE <<Head(A)>> \o Filter(Tail(A), ent_unseen)

\* filter_unseen_entities(X, model, verbose, strict), model.ent_to_idx = e2i.
filter_unseen_entities(A, e2i, is_strict) ==
    LET ent_seen == DOMAIN e2i
        ent_test == Range(Column(A, 1)) \cup Range(Column(A, 3))
        ent_unseen == ent_test \ ent_seen
    IN  IF ent_unseen = {} THEN Returned(A)
        ELSE IF is_strict THEN Raised("RuntimeError")
        ELSE Returned(Filter(A, ent_unseen))

(***************************************************************************)
(* Calls of the mapper and of the filter on drawn inputs.                  *)
(***************************************************************************)
MaxTriples == 2      \* rows of an array given to the mapper or the filter

\* The vocabularies of a fitted model: built by create_mappings from the
\* triples it was fitted on, so the ids are the ranks of the sorted keys.
Vocabulary(S) == ZipRange(SortedSeq(S))

InitMapper ==
    /\ pc = "start"
    /\ X \in SeqsUpTo(RawTriples, MaxTriples)
    /\ \E S \in SUBSET Identifiers : ent_to_idx = Vocabulary(S)
    /\ \E S \in {Identifiers, {1}} : rel_to_idx = Vocabulary(S)
    /\ strict \in BOOLEAN
    /\ test_size = 0 /\ dict_subs = NoArg /\ dict_objs = NoArg /\ dict_rels = NoArg
    /\ idx_test = <<>>
    /\ filter_triples = NoArg /\ rank_against_ent = NoArg
    /\ corrupt_side = "s+o" /\ X_test = NoArg /\ ranks = <<>> /\ calls = <<>>
    /\ entities = NoArg /\ eta = 0 /\ tables = NoArg
    /\ keep_subj_mask = <<>> /\ replacements = <<>>
    /\ GridIdle
    /\ ret = NoArg

\* rel_to_idx, ent_to_idx = create_mappings(X)
CallCreateMappings ==
    /\ pc = "start"
    /\ rel_to_idx' = create_mappings(X)[1]
    /\ ent_to_idx' = create_mappings(X)[2]
    /\ pc' = "mapped"
    /\ UNCHANGED <<X, splitVars, evalVars, corrupt_side, corrVars, gridVars, ret>>

\* to_idx(X, ent_to_idx, rel_to_idx) on the array, with the model's
\* mappings or with those create_mappings has just built from X; or on its
\* first triple alone.
CallToIdx ==
    /\ \/ /\ pc = "start"
          /\ ret' = to_idx(Array2(X), ent_to_idx, rel_to_idx)
          /\ pc' = "converted"
       \/ /\ pc = "mapped"
          /\ ret' = to_idx(Array2(X), ent_to_idx, rel_to_idx)
          /\ pc' = "converted_own"
       \/ /\ pc = "start"
          /\ Len(X) > 0
          /\ ret' = to_idx(Array1(X[1]), ent_to_idx, rel_to_idx)
          /\ pc' = "converted_one"
    /\ UNCHANGED <<X, splitVars, modelVars, evalVars, corrupt_side, corrVars, gridVars>>

\* filter_unseen_entities(X, model, strict=strict)
CallFilterUnseen ==
    /\ pc = "start"
    /\ ret' = filter_unseen_entities(X, ent_to_idx, strict)
    /\ pc' = "filtered"
    /\ UNCHANGED <<X, splitVars, modelVars, evalVars, corrupt_side, corrVars, gridVars>>

NextMapper == CallCreateMappings \/ CallToIdx \/ CallFilterUnseen

SpecMapper == InitMapper /\ [][NextMapper]_vars

\* Some identifier of the rows is absent from the mapping of its column.
SomeIdentifierMissing(rows) ==
    \E i \in DOMAIN rows :
        \/ rows[i][1] \notin DOMAIN ent_to_idx
        \/ rows[i][2] \notin DOMAIN rel_to_idx
        \/ rows[i][3] \notin DOMAIN ent_to_idx

\* C2 (as claimed): whenever an identifier of an input triple is absent from
\* its mapping, to_idx fails with a key-lookup error; it never returns a
\* result in which the missing identifier is mapped to a placeholder.
C2_MissingIdentifierIsKeyError ==
    /\ pc = "converted" /\ SomeIdentifierMissing(X) => ret.error = "KeyError"
    /\ pc = "converted_one" /\ SomeIdentifierMissing(<<X[1]>>) => ret.error = "KeyError"

\* C5 (as claimed): with strict=False filter_unseen_entities returns, in
\* input order, exactly the triples whose subject and object are both in the
\* entity vocabulary; the relation plays no part.
C5_FilterKeepsSeenSubjectObject ==
    pc = "filtered" /\ ~strict =>
        /\ ret.error = "ok"
        /\ ret.val = SelectSeq(X, LAMBDA t : t[1] \in DOMAIN ent_to_idx
                                           /\ t[3] \in DOMAIN ent_to_idx)

\* The inverse of an injective mapping, applied to an id.
Inverse(d, n) == CHOOSE k \in DOMAIN d : d[k] = n

\* C9 (as claimed): create_mappings gives the distinct entities (subjects
\* and objects) and the distinct relations the ids 0..N-1 in sorted order,
\* each mapping is injective, and for every X to_idx under the mappings
\* built from X followed by the inverse mappings recovers X.
C9_MappingsRoundTrip ==
    /\ pc \in {"mapped", "converted_own"} =>
        /\ DOMAIN ent_to_idx = Range(Column(X, 1)) \cup Range(Column(X, 3))
        /\ DOMAIN rel_to_idx = Range(Column(X, 2))
        /\ \A d \in {ent_to_idx, rel_to_idx} :
            /\ {d[k] : k \in DOMAIN d} = 0..(Cardinality(DOMAIN d) - 1)
            /\ \A k, l \in DOMAIN d : k < l => d[k] < d[l]
    /\ pc = "converted_own" =>
        /\ ret.error = "ok"
        /\ Len(ret.val) = Len(X)
        /\ \A i \in DOMAIN X :
            /\ ret.val[i][1] \in Range(ent_to_idx)
            /\ ret.val[i][2] \in Range(rel_to_idx)
            /\ ret.val[i][3] \in Range(ent_to_idx)
            /\ X[i] = <<Inverse(ent_to_idx, ret.val[i][1]),
                        Inverse(rel_to_idx, ret.val[i][2]),
                        Inverse(ent_to_idx, ret.val[i][3])>>

\* The same round trip, for the arrays that have at least one row.
C9_RoundTripNonEmpty == Len(X) > 0 => C9_MappingsRoundTrip

(***************************************************************************)
(* evaluate_performance                                                    *)
(***************************************************************************)
MaxEvalRows == 2     \* test triples given to evaluate_performance
MaxRank == 2         \* largest rank the embedding model answers

\* The fitted model knows the entities 2, 3 and the relation 2, or every
\* identifier.
EvalVocabularies == {<<{2, 3}, {2}>>, <<Identifiers, Identifiers>>}

\* Test triples: two of known identifiers, one with an unknown subject (for
\* the first model), one with an unknown object, one with an unknown relation.
EvalTriples == {<<2, 2, 3>>, <<3, 2, 2>>, <<1, 2, 3>>, <<2, 2, 1>>, <<2, 1, 3>>}

FilterTriplesArgs == {NoArg, Arg(<<<<3, 2, 3>>>>), Arg(<<<<2, 1, 2>>>>)}
RankAgainstEntArgs == {NoArg, Arg({1, 3})}
CorruptSides == {"s", "o", "s+o"}

InitEval ==
    /\ pc = "eval_filter_unseen"
    /\ X \in SeqsUpTo(EvalTriples, MaxEvalRows)
    /\ \E v \in EvalVocabularies :
        /\ ent_to_idx = Vocabulary(v[1])
        /\ rel_to_idx = Vocabulary(v[2])
    /\ strict \in BOOLEAN
    /\ filter_triples \in FilterTriplesArgs
    /\ rank_against_ent \in RankAgainstEntArgs
    /\ corrupt_side \in CorruptSides
    /\ X_test = <<>> /\ ranks = <<>> /\ calls = <<>>
    /\ test_size = 0 /\ dict_subs = NoArg /\ dict_objs = NoArg /\ dict_rels = NoArg
    /\ idx_test = <<>>
    /\ entities = NoArg /\ eta = 0 /\ tables = NoArg
    /\ keep_subj_mask = <<>> /\ replacements = <<>>
    /\ GridIdle
    /\ ret = NoArg

\* A call made on the embedding model, with what it answered.
ModelCall(op, arg, answer) == [op |-> op, arg |-> arg, answer |-> answer]

\* The strict argument line 443 passes to filter_unseen_entities.
StrictPassed == TRUE

\* Line 443: X_test = filter_unseen_entities(X, model, verbose, strict=True)
EvalFilterUnseen ==
    /\ pc = "eval_filter_unseen"
    /\ LET r == filter_unseen_entities(X, ent_to_idx, StrictPassed)
       IN  \/ /\ r.error # "ok"
              /\ pc' = "raised"
              /\ ret' = r
              /\ UNCHANGED X_test
           \/ /\ r.error = "ok"
              /\ pc' = "eval_to_idx"
              /\ X_test' = r.val
              /\ UNCHANGED ret
    /\ UNCHANGED <<X, splitVars, modelVars, strict, filter_triples,
                   rank_against_ent, ranks, calls, corrupt_side, corrVars, gridVars>>

\* Lines 445-447: X_test = to_idx(X_test, ...); ranks = []
EvalToIdx ==
    /\ pc = "eval_to_idx"
    /\ LET r == to_idx(Array2(X_test), ent_to_idx, rel_to_idx)
       IN  \/ /\ r.error # "ok"
              /\ pc' = "raised"
              /\ ret' = r
              /\ UNCHANGED <<X_test, ranks>>
           \/ /\ r.error = "ok"
              /\ pc' = "eval_set_filter"
              /\ X_test' = r.val
              /\ ranks' = <<>>
              /\ UNCHANGED ret
    /\ UNCHANGED <<X, splitVars, modelVars, strict, filter_triples,
                   rank_against_ent, calls, corrupt_side, corrVars, gridVars>>

\* Lines 450-454: the filter triples, when given, are converted and handed to
\* the model.
EvalSetFilter ==
    /\ pc = "eval_set_filter"
    /\ \/ /\ ~filter_triples.given
          /\ pc' = "eval_configure"
          /\ UNCHANGED <<calls, ret>>
       \/ /\ filter_triples.given
          /\ to_idx(Array2(filter_triples.val), ent_to_idx, rel_to_idx).error # "ok"
          /\ pc' = "raised"
          /\ ret' = to_idx(Array2(filter_triples.val), ent_to_idx, rel_to_idx)
          /\ UNCHANGED calls
       \/ /\ filter_triples.given
          /\ to_idx(Array2(filter_triples.val), ent_to_idx, rel_to_idx).error = "ok"
          /\ calls' = Append(calls, ModelCall("set_filter_for_eval",
                to_idx(Array2(filter_triples.val), ent_to_idx, rel_to_idx).val, None))
          /\ pc' = "eval_configure"
          /\ UNCHANGED ret
    /\ UNCHANGED <<X, splitVars, modelVars, strict, filter_triples,
                   rank_against_ent, X_test, ranks, corrupt_side, corrVars, gridVars>>

\* [idx for uri, idx in model.ent_to_idx.items() if uri in rank_against_ent],
\* in the dictionary's (insertion, here sorted-key) order.
idx_entities ==
    LET uris == SortedSeq(DOMAIN ent_to_idx \cap rank_against_ent.val)
    IN  [k \in DOMAIN uris |-> ent_to_idx[uris[k]]]

\* The configuration without the candidate restriction, whatever the caller
\* passed as rank_against_ent.
eval_dict_unrestricted ==
    [corrupt_side |-> corrupt_side, corruption_entities |-> NoArg]

\* Lines 454-460: the evaluation configuration.
eval_dict ==
    [corrupt_side |-> corrupt_side,
     corruption_entities |->
        IF rank_against_ent.given THEN Arg(idx_entities) ELSE NoArg]

\* Line 461: model.configure_evaluation_protocol(eval_dict)
EvalConfigure ==
    /\ pc = "eval_configure"
    /\ calls' = Append(calls, ModelCall("configure_evaluation_protocol", eval_dict, None))
    /\ pc' = "eval_predict"
    /\ UNCHANGED <<X, splitVars, modelVars, strict, filter_triples,
                   rank_against_ent, X_test, ranks, corrupt_side, corrVars, gridVars, ret>>

\* predict is handed the first test triple in every iteration.
PredictArgFirst(i) == X_test[1]

\* The triple line 465 hands to predict in iteration i (1-based here).
PredictArg(i) == X_test[i]

\* Lines 464-466: one iteration of the loop; the model answers some rank.
EvalPredict ==
    /\ pc = "eval_predict"
    /\ Len(ranks) < Len(X_test)
    /\ \E rank \in 1..MaxRank :
        /\ calls' = Append(calls, ModelCall("predict", PredictArg(Len(ranks) + 1), rank))
        /\ ranks' = Append(ranks, rank)
    /\ UNCHANGED <<pc, X, splitVars, modelVars, strict, filter_triples,
                   rank_against_ent, X_test, corrupt_side, corrVars, gridVars, ret>>

\* Lines 467-469: the loop is over.
EvalEnd ==
    /\ pc = "eval_predict"
    /\ Len(ranks) = Len(X_test)
    /\ calls' = Append(calls, ModelCall("end_evaluation", None, None))
    /\ pc' = "returned"
    /\ ret' = Returned(ranks)
    /\ UNCHANGED <<X, splitVars, modelVars, strict, filter_triples,
                   rank_against_ent, X_test, ranks, corrupt_side, corrVars, gridVars>>

NextEval ==
    \/ EvalFilterUnseen \/ EvalToIdx \/ EvalSetFilter
    \/ EvalConfigure \/ EvalPredict \/ EvalEnd

SpecEval == InitEval /\ [][NextEval]_vars

\* A test triple with an entity absent from model.ent_to_idx.
HasUnseenEntity(t) == t[1] \notin DOMAIN ent_to_idx \/ t[3] \notin DOMAIN ent_to_idx

\* C1 (as claimed): called with strict=False on triples some of which hold an
\* unseen entity, evaluate_performance does not raise for them: only with
\* strict=True does an unseen entity make the call fail; and a call that
\* returns gives one rank for each triple without an unseen entity.
C1_StrictFlagHonoured ==
    /\ pc = "raised" /\ ret.error = "RuntimeError" => strict
    /\ pc = "returned" =>
          Len(ret.val) = Len(SelectSeq(X, LAMBDA t : ~HasUnseenEntity(t)))

\* The predict calls among the calls made on the model, in order.
PredictCalls == SelectSeq(calls, LAMBDA c : c.op = "predict")

\* C10: a call of evaluate_performance that returns gives exactly one rank
\* per input test triple, in input order: the i-th rank is the one predict
\* answered for the i-th input triple converted to ids (so a model that
\* always answers 1 yields all ones, as many as there are input triples).
C10_OneRankPerTripleInOrder ==
    /\ pc \in {"eval_predict", "returned"} =>
        /\ Len(PredictCalls) = Len(ranks)
        /\ \A i \in DOMAIN ranks :
            /\ PredictCalls[i].arg =
                   to_idx(Array1(X[i]), ent_to_idx, rel_to_idx).val[1]
            /\ PredictCalls[i].answer = ranks[i]
    /\ pc = "returned" =>
        /\ ret.val = ranks
        /\ Len(ret.val) = Len(X)

\* C10 witness: a call returned the different ranks the model gave to two
\* different test triples.
C10_Witness ==
    /\ pc = "returned"
    /\ Len(X) = 2
    /\ X[1] # X[2]
    /\ ret.val[1] # ret.val[2]

\* The operations called on the model, in order.
CallOps == [i \in DOMAIN calls |-> calls[i].op]

\* The calls a returning evaluation makes before its first predict.
SetUpOps ==
    (IF filter_triples.given THEN <<"set_filter_for_eval">> ELSE <<>>)
        \o <<"configure_evaluation_protocol">>

\* C14: a call of evaluate_performance that returns has called the model in
\* this order: set_filter_for_eval once if and only if filter_triples was
\* given, configure_evaluation_protocol once (corrupt_side always set,
\* corruption_entities set exactly when rank_against_ent was given), predict
\* once per test triple in input order, end_evaluation once.  At no time has
\* predict been called before configure_evaluation_protocol or after
\* end_evaluation, and a call that fails in the unseen-entity filter has
\* made no call on the model.
C14_ModelCallsInOrder ==
    /\ pc = "returned" =>
        /\ CallOps = SetUpOps \o [i \in 1..Len(X_test) |-> "predict"]
                              \o <<"end_evaluation">>
        /\ LET conf == calls[Len(SetUpOps)].arg
           IN  /\ conf.corrupt_side = corrupt_side
               /\ conf.corruption_entities.given = rank_against_ent.given
        /\ \A i \in 1..Len(X_test) : calls[Len(SetUpOps) + i].arg = X_test[i]
        /\ Len(X_test) = Len(X)
    /\ \A i \in DOMAIN calls :
          calls[i].op = "predict" =>
              /\ \E j \in 1..(i - 1) : calls[j].op = "configure_evaluation_protocol"
              /\ \A j \in 1..(i - 1) : calls[j].op # "end_evaluation"
    /\ (pc = "raised" /\ ret.error = "RuntimeError") => calls = <<>>

\* C14 witness: a call with filter triples and a candidate restriction
\* returned after ranking two test triples.
C14_Witness ==
    /\ pc = "returned"
    /\ filter_triples.given
    /\ rank_against_ent.given
    /\ Len(X) = 2
    /\ Len(calls) = 5

(***************************************************************************)
(* Tensors: a shape and the elements in row-major order.                   *)
(***************************************************************************)
Tensor(shape, flat) == [shape |-> shape, flat |-> flat]

\* The tensor of an array of triples, shape [n, 3].
TripleTensor(rows) ==
    Tensor(<<Len(rows), 3>>,
           [p \in 1..(3 * Len(rows)) |-> rows[((p - 1) \div 3) + 1][((p - 1) % 3) + 1]])

\* The tensor of a vector, shape [len].
VectorTensor(v) == Tensor(<<Len(v)>>, v)

\* The rows of a tensor of shape [n, 3].
Rows(T) ==
    [i \in 1..T.shape[1] |->
        <<T.flat[3 * (i - 1) + 1], T.flat[3 * (i - 1) + 2], T.flat[3 * (i - 1) + 3]>>]

\* tf.slice(X, [0, c], [tf.shape(X)[0], 1]): column c (0-based), shape [n, 1].
tf_slice_column(T, c) ==
    Tensor(<<T.shape[1], 1>>,
           [i \in 1..T.shape[1] |-> T.flat[(i - 1) * T.shape[2] + c + 1]])

\* tf.keras.backend.repeat(x, k): x of shape [n, d] becomes [n, k, d].
K_repeat(T, k) ==
    LET n == T.shape[1]
        d == T.shape[2]
    IN  Tensor(<<n, k, d>>,
               [p \in 1..(n * k * d) |->
                   T.flat[((p - 1) \div (k * d)) * d + ((p - 1) % d) + 1]])

\* tf.squeeze(x, axis) where that dimension has size 1 (axis 0-based).
tf_squeeze_axis(T, axis) ==
    Tensor([j \in 1..(Len(T.shape) - 1) |->
               IF j <= axis THEN T.shape[j] ELSE T.shape[j + 1]],
           T.flat)

\* tf.squeeze(x): every dimension of size 1 is removed.
tf_squeeze(T) == Tensor(SelectSeq(T.shape, LAMBDA d : d # 1), T.flat)

\* tf.expand_dims(x, 0)
tf_expand_dims0(T) == Tensor(<<1>> \o T.shape, T.flat)

\* tf.stack([a, b, c], 1) of three tensors of shape [n, m]: shape [n, 3, m].
tf_stack1(A, B, C) ==
    LET n == A.shape[1]
        m == A.shape[2]
        part(t) == IF t = 0 THEN A ELSE IF t = 1 THEN B ELSE C
    IN  Tensor(<<n, 3, m>>,
               [p \in 1..(n * 3 * m) |->
                   part(((p - 1) \div m) % 3).flat[
                       ((p - 1) \div (3 * m)) * m + ((p - 1) % m) + 1]])

\* tf.concat([a, b], 0) of tensors of rank >= 1 that agree on the other
\* dimensions.
tf_concat0(A, B) ==
    Tensor(<<A.shape[1] + B.shape[1]>> \o Tail(A.shape), A.flat \o B.flat)

\* tf.concat refuses scalars ("Can't concatenate scalars").
CanConcat0(A, B) == Len(A.shape) >= 1 /\ Len(B.shape) >= 1

\* tf.transpose(x, [0, 2, 1]) of a tensor of shape [a, b, c]: shape [a, c, b].
tf_transpose021(T) ==
    LET a == T.shape[1]
        b == T.shape[2]
        c == T.shape[3]
    IN  Tensor(<<a, c, b>>,
               [p \in 1..(a * b * c) |->
                   LET i == (p - 1) \div (c * b)
                       j == ((p - 1) \div b) % c
                       k == (p - 1) % b
                   IN  T.flat[(i * b + k) * c + j + 1]])

\* tf.reshape(x, (-1, 3))
tf_reshape_rows3(T) == Tensor(<<Len(T.flat) \div 3, 3>>, T.flat)

\* table.lookup(keys): element-wise, the shape is kept.  A table holds the
\* prime of id k at position k + 1.
table_lookup(table, T) ==
    Tensor(T.shape, [p \in DOMAIN T.flat |-> table[T.flat[p] + 1]])

\* a * b * c, element-wise on tensors of one shape.
tf_multiply3(A, B, C) ==
    Tensor(A.shape, [p \in DOMAIN A.flat |-> A.flat[p] * B.flat[p] * C.flat[p]])

\* tf.constant([])
EmptyTensor == Tensor(<<0>>, <<>>)

(***************************************************************************)
(* generate_corruptions_for_eval                                           *)
(***************************************************************************)
ValidSides == {"s+o", "s", "o"}

\* Lines 196-225: the repeated columns of X and the repeated candidates.
repeated_column(XT, c, ents) ==
    tf_squeeze_axis(K_repeat(tf_slice_column(XT, c), ents.shape[1]), 2)

\* Lines 224-225: rep_ent, the candidates once per source triple.
rep_ent_of(XT, ents) ==
    tf_squeeze_axis(K_repeat(tf_expand_dims0(ents), XT.shape[1]), 0)

\* stacked_out for 's+o' with the two blocks in the other order.
SubjectCorruptionsFirst(XT, ents) ==
    LET repeated_subjs == repeated_column(XT, 0, ents)
        repeated_relns == repeated_column(XT, 1, ents)
        repeated_objs  == repeated_column(XT, 2, ents)
        rep_ent        == rep_ent_of(XT, ents)
    IN  tf_concat0(tf_stack1(rep_ent, repeated_relns, repeated_objs),
                   tf_stack1(repeated_subjs, repeated_relns, rep_ent))

\* Lines 228-230: stacked_out for 's+o'.
stacked_out_both(XT, ents) ==
    LET repeated_subjs == repeated_column(XT, 0, ents)
        repeated_relns == repeated_column(XT, 1, ents)
        repeated_objs  == repeated_column(XT, 2, ents)
        rep_ent        == rep_ent_of(XT, ents)
    IN  tf_concat0(tf_stack1(repeated_subjs, repeated_relns, rep_ent),
                   tf_stack1(rep_ent, repeated_relns, repeated_objs))

\* Lines 228-236: stacked_out.
stacked_out_of(XT, ents, side) ==
    LET repeated_subjs == repeated_column(XT, 0, ents)
        repeated_relns == repeated_column(XT, 1, ents)
        repeated_objs  == repeated_column(XT, 2, ents)
        rep_ent        == rep_ent_of(XT, ents)
    IN  IF side = "s+o" THEN stacked_out_both(XT, ents)
        ELSE IF side = "o" THEN tf_stack1(repeated_subjs, repeated_relns, rep_ent)
        ELSE tf_stack1(rep_ent, repeated_relns, repeated_objs)

\* Lines 242-262: out_prime when the three tables are given: [error, val].
out_prime_of(XT, ents, side, tabs) ==
    LET repeated_subjs == repeated_column(XT, 0, ents)
        repeated_relns == repeated_column(XT, 1, ents)
        repeated_objs  == repeated_column(XT, 2, ents)
        rep_ent        == rep_ent_of(XT, ents)
        prime_subj      == tf_squeeze(table_lookup(tabs.left, repeated_subjs))
        prime_ent_right == tf_squeeze(table_lookup(tabs.right, rep_ent))
        prime_obj       == tf_squeeze(table_lookup(tabs.right, repeated_objs))
        prime_ent_left  == tf_squeeze(table_lookup(tabs.left, rep_ent))
        prime_reln      == tf_squeeze(table_lookup(tabs.reln, repeated_relns))
        obj_side  == tf_multiply3(prime_subj, prime_reln, prime_ent_right)
        subj_side == tf_multiply3(prime_ent_left, prime_reln, prime_obj)
    IN  IF side = "s+o"
        THEN IF CanConcat0(obj_side, subj_side)
             THEN Returned(tf_concat0(obj_side, subj_side))
             ELSE Raised("ValueError")
        ELSE IF side = "o" THEN Returned(obj_side)
        ELSE Returned(subj_side)

\* generate_corruptions_for_eval(X, entities_for_corruption, corrupt_side,
\* table_entity_lookup_left, table_entity_lookup_right, table_reln_lookup):
\* [error, out, out_prime].
generate_corruptions_for_eval(XT, ents, side, tabs) ==
    IF side \notin ValidSides
    THEN [error |-> "ValueError", out |-> EmptyTensor, out_prime |-> EmptyTensor]
    ELSE LET out == tf_reshape_rows3(tf_transpose021(stacked_out_of(XT, ents, side)))
             primes == IF tabs.given THEN out_prime_of(XT, ents, side, tabs.val)
                       ELSE Returned(EmptyTensor)
         IN  IF primes.error # "ok"
             THEN [error |-> primes.error, out |-> EmptyTensor, out_prime |-> EmptyTensor]
             ELSE [error |-> "ok", out |-> out, out_prime |-> primes.val]

MaxBatch == 2        \* source triples given to generate_corruptions_for_eval

\* Triples in id space: entity ids 0..2, relation ids 0..1.
CorrTriples == {<<0, 0, 1>>, <<1, 0, 0>>, <<2, 1, 2>>, <<0, 1, 2>>}

\* Candidate pools: empty, one candidate, all entities, a reordered subset.
EvalPools == {<<>>, <<1>>, <<0, 1>>, <<0, 1, 2>>, <<2, 0>>}

\* Prime tables (the prime of id k at position k + 1): one assignment with
\* pairwise different primes, one that gives an entity the same prime as
\* subject and as object.
PrimeTables ==
    {[left |-> <<2, 3, 5>>, reln |-> <<7, 11>>, right |-> <<13, 17, 19>>],
     [left |-> <<2, 3, 5>>, reln |-> <<7, 11>>, right |-> <<2, 3, 5>>]}

InitCorrEval ==
    /\ pc = "corr_eval"
    /\ \E rows \in SeqsUpTo(CorrTriples, MaxBatch) :
        /\ Len(rows) >= 1
        /\ X = rows
    /\ entities \in EvalPools
    /\ corrupt_side \in ValidSides \cup {"both"}
    /\ tables \in {NoArg} \cup {Arg(t) : t \in PrimeTables}
    /\ eta = 0 /\ keep_subj_mask = <<>> /\ replacements = <<>>
    /\ test_size = 0 /\ dict_subs = NoArg /\ dict_objs = NoArg /\ dict_rels = NoArg
    /\ idx_test = <<>>
    /\ ent_to_idx = NoArg /\ rel_to_idx = NoArg
    /\ strict = FALSE /\ filter_triples = NoArg /\ rank_against_ent = NoArg
    /\ X_test = NoArg /\ ranks = <<>> /\ calls = <<>>
    /\ GridIdle
    /\ ret = NoArg

\* out, out_prime = generate_corruptions_for_eval(X, entities, corrupt_side, tables)
CallCorruptionsForEval ==
    /\ pc = "corr_eval"
    /\ LET r == generate_corruptions_for_eval(
                    TripleTensor(X), VectorTensor(entities), corrupt_side, tables)
       IN  \/ /\ r.error # "ok"
              /\ pc' = "raised"
              /\ ret' = r
           \/ /\ r.error = "ok"
              /\ pc' = "returned"
              /\ ret' = r
    /\ UNCHANGED <<X, splitVars, modelVars, evalVars, corrupt_side, corrVars, gridVars>>

NextCorrEval == CallCorruptionsForEval

SpecCorrEval == InitCorrEval /\ [][NextCorrEval]_vars

\* C6: on a single source triple (s, r, o) and a pool of M candidates the
\* returned corruptions are, for 'o', the M rows (s, r, c) in pool order; for
\* 's', the M rows (c, r, o); for 's+o', the M object corruptions followed by
\* the M subject corruptions.  The other columns are the source's, and a
\* candidate equal to the source's own entity is kept.  Without prime tables
\* a call with a valid side always returns.
C6_CorruptionsOfSingleTriple ==
    /\ pc = "raised" => corrupt_side \notin ValidSides \/ tables.given
    /\ pc = "returned" /\ Len(X) = 1 =>
        LET M == Len(entities)
            rows == Rows(ret.out)
            obj_rows == [k \in 1..M |-> <<X[1][1], X[1][2], entities[k]>>]
            subj_rows == [k \in 1..M |-> <<entities[k], X[1][2], X[1][3]>>]
        IN  /\ corrupt_side = "o" => rows = obj_rows
            /\ corrupt_side = "s" => rows = subj_rows
            /\ corrupt_side = "s+o" => rows = obj_rows \o subj_rows

\* C6 witness: both sides of one triple were corrupted with three candidates,
\* and the source triple itself is among the rows.
C6_Witness ==
    /\ pc = "returned"
    /\ Len(X) = 1
    /\ corrupt_side = "s+o"
    /\ Len(entities) = 3
    /\ \E k \in 1..ret.out.shape[1] : Rows(ret.out)[k] = X[1]

\* The signature of a triple under the given tables.
Signature(t) ==
    tables.val.left[t[1] + 1] * tables.val.reln[t[2] + 1] * tables.val.right[t[3] + 1]

\* The three tables together give no prime twice.
PrimeAssignmentInjective ==
    LET l == tables.val.left
        r == tables.val.reln
        o == tables.val.right
    IN  /\ \A i, j \in DOMAIN l : i # j => l[i] # l[j]
        /\ \A i, j \in DOMAIN r : i # j => r[i] # r[j]
        /\ \A i, j \in DOMAIN o : i # j => o[i] # o[j]
        /\ Range(l) \cap Range(r) = {}
        /\ Range(l) \cap Range(o) = {}
        /\ Range(r) \cap Range(o) = {}

\* What C7 says of a call that returned.
SignaturesMatchRows ==
    LET rows == Rows(ret.out)
        sigs == ret.out_prime.flat
    IN  /\ tables.given =>
            /\ Len(sigs) = Len(rows)
            /\ \A k \in DOMAIN rows : sigs[k] = Signature(rows[k])
            /\ PrimeAssignmentInjective =>
                 \A k, l \in DOMAIN rows : sigs[k] = sigs[l] <=> rows[k] = rows[l]
        /\ ~tables.given => sigs = <<>>

\* C7 (as claimed): when the three prime tables are supplied (and the side
\* is valid) the k-th signature returned is the product of the primes of the
\* k-th corruption row, and under an injective prime assignment two rows
\* have equal signatures iff they are equal; without tables the signature
\* output is empty.
C7_SignaturesReturned ==
    /\ pc = "raised" => corrupt_side \notin ValidSides
    /\ pc = "returned" => SignaturesMatchRows

\* The part of C7 that holds: whenever the call returns, the signatures are
\* as claimed.
C7_SignaturesWhenReturned == pc = "returned" => SignaturesMatchRows

\* No row of X has its subject, relation and object counts all above 1.
NoRowPassesGuard ==
    \A r \in DOMAIN X :
        ~(dict_subs[X[r][1]] > 1 /\ dict_objs[X[r][3]] > 1 /\ dict_rels[X[r][2]] > 1)

\* The loop still needs indices and no row can be accepted.
SplitStuck ==
    /\ pc = "split_loop"
    /\ Len(idx_test) < test_size
    /\ NoRowPassesGuard

\* The step leaves the loop where it is: same counts, same accepted list,
\* no return and no exception.
SplitStaysPut ==
    /\ pc' = "split_loop"
    /\ idx_test' = idx_test
    /\ dict_subs' = dict_subs /\ dict_objs' = dict_objs /\ dict_rels' = dict_rels

\* While some row passes the guard, another index is eventually accepted.
SplitAcceptsEventually ==
    \A k \in 0..MaxRows :
        (pc = "split_loop" /\ Len(idx_test) = k /\ k < test_size /\ ~NoRowPassesGuard)
            ~> (Len(idx_test) > k)

\* C15 (as claimed): once fewer than test_size indices are accepted and no
\* row has its three counts all > 1, no draw is accepted any more, the counts
\* and the accepted list never change again and the function neither returns
\* nor raises, for every dataset.
C15_InfeasibleSplitNeverEnds ==
    [][SplitStuck => (~ENABLED SplitAccept /\ SplitStaysPut)]_vars

\* C15 (amended): the same for a dataset with at least one row (on an empty
\* dataset the first draw raises), and under fair drawing an index is
\* eventually accepted as long as some row passes the guard.
C15_InfeasibleNonEmptySplitNeverEnds ==
    /\ [][(SplitStuck /\ Len(X) > 0) => (~ENABLED SplitAccept /\ SplitStaysPut)]_vars
    /\ SplitAcceptsEventually

\* C15 witness: the loop accepted an index and then got stuck on a non-empty
\* dataset.
C15_Witness ==
    /\ SplitStuck
    /\ Len(X) > 0
    /\ Len(idx_test) >= 1

(***************************************************************************)
(* generate_corruptions_for_fit                                            *)
(***************************************************************************)
MaxFitRows == 2      \* source triples given to generate_corruptions_for_fit
MaxEta == 2          \* largest eta

FitTriples == {<<0, 0, 1>>, <<1, 0, 0>>, <<2, 1, 2>>}

\* all_entities: the ids 0..1, two pools that are not a range from 0, and
\* the empty pool.
FitPools == {<<0, 1>>, <<1, 2>>, <<2>>, <<>>}

InitCorrFit ==
    /\ pc = "corr_fit"
    /\ \E rows \in SeqsUpTo(FitTriples, MaxFitRows) :
        /\ Len(rows) >= 1
        /\ X = rows
    /\ entities \in FitPools
    /\ eta \in 1..MaxEta
    /\ corrupt_side \in ValidSides \cup {"both"}
    /\ tables = NoArg /\ keep_subj_mask = <<>> /\ replacements = <<>>
    /\ test_size = 0 /\ dict_subs = NoArg /\ dict_objs = NoArg /\ dict_rels = NoArg
    /\ idx_test = <<>>
    /\ ent_to_idx = NoArg /\ rel_to_idx = NoArg
    /\ strict = FALSE /\ filter_triples = NoArg /\ rank_against_ent = NoArg
    /\ X_test = NoArg /\ ranks = <<>> /\ calls = <<>>
    /\ GridIdle
    /\ ret = NoArg

\* Each element k times in a row (np.repeat's order), where tf.tile repeats
\* the whole vector.
tf_tile_grouped(v, k) == [p \in 1..(Len(v) * k) |-> v[((p - 1) \div k) + 1]]

\* tf.tile(v, [k]): the vector k times over.
tf_tile(v, k) == [p \in 1..(Len(v) * k) |-> v[((p - 1) % Len(v)) + 1]]

\* Line 304: dataset, the rows of X tiled eta times.
dataset == tf_tile(X, eta)

\* The values tf.random_uniform([..], 0, maxval, dtype=tf.int32) can draw.
UniformInts(maxval) == 0..(maxval - 1)

\* Line 320: a replacement is drawn from [0, tf.shape(all_entities)[0]).
ReplacementValues == UniformInts(Len(entities))

\* Lines 306-311: the masks the call can build: for 's+o' one coin per source
\* triple, tiled eta times; for 'o' all ones; for 's' all zeros.
KeepSubjMasks ==
    IF corrupt_side = "s+o"
    THEN {tf_tile(coin, eta) : coin \in [1..Len(X) -> UniformInts(2)]}
    ELSE IF corrupt_side = "s"
    THEN {[p \in 1..(Len(X) * eta) |-> 0]}
    ELSE {[p \in 1..(Len(X) * eta) |-> 1]}

\* Lines 313-329: the corrupted rows for a mask and the drawn replacements.
CorruptedRows(keep_subj, repl) ==
    [p \in DOMAIN dataset |->
        LET keep_obj == 1 - keep_subj[p]
        IN  <<keep_subj[p] * dataset[p][1] + keep_obj * repl[p],
              dataset[p][2],
              keep_obj * dataset[p][3] + keep_subj[p] * repl[p]>>]

\* out = generate_corruptions_for_fit(X, all_entities, eta, corrupt_side, rnd)
CallCorruptionsForFit ==
    /\ pc = "corr_fit"
    /\ \/ /\ corrupt_side \notin ValidSides
          /\ pc' = "raised"
          /\ ret' = Raised("ValueError")
          /\ UNCHANGED <<keep_subj_mask, replacements>>
       \/ /\ corrupt_side \in ValidSides
          /\ Len(entities) = 0
          \* tf.random_uniform needs minval < maxval
          /\ pc' = "raised"
          /\ ret' = Raised("InvalidArgumentError")
          /\ UNCHANGED <<keep_subj_mask, replacements>>
       \/ /\ corrupt_side \in ValidSides
          /\ Len(entities) > 0
          /\ keep_subj_mask' \in KeepSubjMasks
          /\ replacements' \in [DOMAIN dataset -> ReplacementValues]
          /\ pc' = "returned"
          /\ ret' = Returned(CorruptedRows(keep_subj_mask', replacements'))
    /\ UNCHANGED <<X, splitVars, modelVars, evalVars, corrupt_side,
                   entities, eta, tables, gridVars>>

NextCorrFit == CallCorruptionsForFit

SpecCorrFit == InitCorrFit /\ [][NextCorrFit]_vars

\* C8 (as claimed): every replacement value written into a corrupted row is
\* an element of all_entities, whatever ids the pool holds.
C8_ReplacementsFromPool ==
    pc = "returned" =>
        \A p \in DOMAIN ret.val :
            /\ keep_subj_mask[p] = 0 => ret.val[p][1] \in Range(entities)
            /\ keep_subj_mask[p] = 1 => ret.val[p][3] \in Range(entities)

\* What the code guarantees instead: a replacement is an index into the pool.
C8_ReplacementsAreIndices ==
    pc = "returned" =>
        \A p \in DOMAIN ret.val :
            /\ keep_subj_mask[p] = 0 => ret.val[p][1] \in 0..(Len(entities) - 1)
            /\ keep_subj_mask[p] = 1 => ret.val[p][3] \in 0..(Len(entities) - 1)

\* C12 (as claimed): with 's+o' each of the n*eta output rows has a coin of
\* its own, so every assignment of kept sides to the rows is a mask the call
\* can build; with 's' every returned row has its subject replaced and its
\* object kept, with 'o' its object replaced and its subject kept.
C12_CoinFlipPerRow ==
    /\ (pc = "corr_fit" /\ corrupt_side = "s+o" /\ Len(entities) > 0) =>
          \A m \in [1..(Len(X) * eta) -> {0, 1}] : m \in KeepSubjMasks
    /\ (pc = "returned" /\ corrupt_side = "s") =>
          \A p \in DOMAIN ret.val :
              ret.val[p][1] = replacements[p] /\ ret.val[p][3] = dataset[p][3]
    /\ (pc = "returned" /\ corrupt_side = "o") =>
          \A p \in DOMAIN ret.val :
              ret.val[p][3] = replacements[p] /\ ret.val[p][1] = dataset[p][1]

\* What the code does instead: the eta corruptions of one source triple all
\* have the same side replaced.
C12_SideSharedBySourceTriple ==
    pc = "returned" =>
        \A p \in DOMAIN keep_subj_mask : \A q \in DOMAIN keep_subj_mask :
            (p - 1) % Len(X) = (q - 1) % Len(X) => keep_subj_mask[p] = keep_subj_mask[q]

\* C13: a returning generate_corruptions_for_fit returns exactly n*eta rows,
\* and for every i in [0,n) and j in [0,eta) output row i + j*n keeps the
\* relation of source triple i and exactly one of its subject and object: the
\* other position holds the drawn replacement.
C13_RowsTiledBySourceTriple ==
    pc = "returned" =>
        /\ Len(ret.val) = Len(X) * eta
        /\ \A i \in 0..(Len(X) - 1) : \A j \in 0..(eta - 1) :
              LET p == i + j * Len(X) + 1
                  row == ret.val[p]
                  src == X[i + 1]
              IN  /\ row[2] = src[2]
                  /\ row[1] = src[1] \/ row[3] = src[3]
                  /\ keep_subj_mask[p] = 1 =>
                        row[1] = src[1] /\ row[3] = replacements[p]
                  /\ keep_subj_mask[p] = 0 =>
                        row[3] = src[3] /\ row[1] = replacements[p]

\* C13 witness: two different source triples, eta = 2, and the second
\* corruption of the second triple differs from it.
C13_Witness ==
    /\ pc = "returned"
    /\ Len(X) = 2 /\ eta = 2
    /\ X[1][2] # X[2][2]
    /\ ret.val[4] # X[2]
    /\ ret.val[4][2] = X[2][2]

(***************************************************************************)
(* The hyperparameter grid: yield_all_permutations and                     *)
(* gridsearch_next_hyperparam.  A Python dictionary is a function from its *)
(* keys; a generator is the sequence of what it yields and how it ends:    *)
(* "done" when exhausted, or the exception raised in its body.             *)
(***************************************************************************)
EmptyDict == <<>>

\* What a generator yields (items), and how it ends.
Generated(items, end) == [items |-> items, end |-> end]

\* The variables of the other operations while the grid search runs.
OtherCallsIdle ==
    /\ test_size = 0 /\ dict_subs = NoArg /\ dict_objs = NoArg /\ dict_rels = NoArg
    /\ idx_test = <<>>
    /\ ent_to_idx = NoArg /\ rel_to_idx = NoArg
    /\ strict = FALSE /\ filter_triples = NoArg /\ rank_against_ent = NoArg
    /\ corrupt_side = "s+o" /\ X_test = NoArg /\ ranks = <<>> /\ calls = <<>>
    /\ entities = NoArg /\ eta = 0 /\ tables = NoArg
    /\ keep_subj_mask = <<>> /\ replacements = <<>>

\* The registries: each component name with the parameter names its entry
\* declares (external_params).
REGULARIZER_REGISTRY == [None |-> <<>>, L2 |-> <<"lambda">>]
LOSS_REGISTRY == [nll |-> <<>>, pairwise |-> <<"margin">>]
MODEL_REGISTRY == [ComplEx |-> <<>>, TransE |-> <<"norm">>]

\* for x in xs: for r in rest: x followed by r (the last loop runs fastest).
RECURSIVE Cross(_, _)
Cross(xs, rest) ==
    IF Len(xs) = 0 THEN <<>>
    ELSE [q \in DOMAIN rest |-> <<Head(xs)>> \o rest[q]] \o Cross(Tail(xs), rest)

\* itertools.product(*lists): one tuple per combination, none when a list is
\* empty, the empty tuple alone when there is no list.
RECURSIVE product(_)
product(lists) ==
    IF Len(lists) = 0 THEN << <<>> >>
    ELSE Cross(Head(lists), product(Tail(lists)))

\* Line 547: the handler names KeyErrori, which is not defined: matching the
\* KeyError of a missing parameter against it raises NameError.
MissingParamOutcome == "NameError"

\* Lines 540-551, from the i-th name on.
RECURSIVE PermutationsFrom(_, _, _, _)
PermutationsFrom(registry, category_type, category_type_params, i) ==
    IF i > Len(category_type) THEN Generated(<<>>, "done")
    ELSE
        LET name == category_type[i]
        IN  IF name \notin DOMAIN registry THEN Generated(<<>>, "KeyError")
            ELSE IF \E q \in DOMAIN registry[name] :
                        registry[name][q] \notin DOMAIN category_type_params
            THEN Generated(<<>>, MissingParamOutcome)
            ELSE
                LET present_params == registry[name]
                    present_params_vals ==
                        [q \in DOMAIN present_params |->
                            category_type_params[present_params[q]]]
                    vals == product(present_params_vals)
                    mine == [t \in DOMAIN vals |->
                                [name |-> name,
                                 present_params |-> present_params,
                                 val |-> vals[t]]]
                    rest == PermutationsFrom(registry, category_type,
                                             category_type_params, i + 1)
                IN  Generated(mine \o rest.items, rest.end)

\* yield_all_permutations(registry, category_type, category_type_params)
yield_all_permutations(registry, category_type, category_type_params) ==
    PermutationsFrom(registry, category_type, category_type_params, 1)

\* The keys the nested loops of lines 584-595 read.
RequiredKeys ==
    {"batches_count", "epochs", "k", "eta", "regularizer", "regularizer_params",
     "optimizer", "optimizer_params", "loss", "loss_params",
     "embedding_model_params"}

\* for x in in_dict[key]: a missing key raises KeyError.
ListLoop(key) ==
    IF key \in DOMAIN in_dict THEN Generated(in_dict[key], "done")
    ELSE Generated(<<>>, "KeyError")

\* for .. in yield_all_permutations(registry, names, in_dict[params_key]),
\* the arguments being read before the generator is built.
PermutationLoop(registry, names_key, params_key) ==
    IF names_key \in DOMAIN in_dict /\ params_key \in DOMAIN in_dict
    THEN yield_all_permutations(registry, in_dict[names_key], in_dict[params_key])
    ELSE Generated(<<>>, "KeyError")

\* What the j-th of the nine nested loops of lines 584-595 iterates over.
LoopOver(j) ==
    CASE j = 1 -> ListLoop("batches_count")
      [] j = 2 -> ListLoop("epochs")
      [] j = 3 -> ListLoop("k")
      [] j = 4 -> ListLoop("eta")
      [] j = 5 -> PermutationLoop(REGULARIZER_REGISTRY, "regularizer", "regularizer_params")
      [] j = 6 -> ListLoop("optimizer")
      [] j = 7 -> IF "optimizer_params" \in DOMAIN in_dict
                     /\ "lr" \in DOMAIN in_dict["optimizer_params"]
                  THEN Generated(in_dict["optimizer_params"]["lr"], "done")
                  ELSE Generated(<<>>, "KeyError")
      [] j = 8 -> PermutationLoop(LOSS_REGISTRY, "loss", "loss_params")
      [] j = 9 -> IF "embedding_model_params" \in DOMAIN in_dict
                  THEN yield_all_permutations(MODEL_REGISTRY, <<model_name>>,
                                              in_dict["embedding_model_params"])
                  ELSE Generated(<<>>, "KeyError")

\* A loop around what its body generates.  The body is entered anew, with
\* the same outcome, in every iteration, so an exception inside it ends
\* everything in the first iteration; the loop's own iterable may end in an
\* exception after its last item.
LoopAround(over, inner) ==
    IF Len(over.items) = 0 THEN Generated(<<>>, over.end)
    ELSE IF inner.end # "done"
    THEN Generated(Cross(<<over.items[1]>>, inner.items), inner.end)
    ELSE Generated(Cross(over.items, inner.items), over.end)

\* The loops from the j-th inwards: the tuples of loop values for which the
\* body (lines 596-623) runs, up to the first exception.
RECURSIVE NestedLoops(_)
NestedLoops(j) ==
    IF j > 9 THEN Generated(<< <<>> >>, "done")
    ELSE LoopAround(LoopOver(j), NestedLoops(j + 1))

\* Lines 570-581: verbose and seed, with their defaults.
verbose == IF "verbose" \in DOMAIN in_dict THEN in_dict["verbose"] ELSE FALSE
seed == IF "seed" \in DOMAIN in_dict THEN in_dict["seed"] ELSE -1

\* Lines 616-621: the dictionary of a permutation's parameters.
ParamDict(perm) ==
    [p \in Range(perm.present_params) |->
        perm.val[CHOOSE q \in DOMAIN perm.present_params : perm.present_params[q] = p]]

\* Lines 596-621: the configuration built from the nine loop values.
out_dict(c) ==
    LET base == [batches_count |-> c[1],
                 epochs |-> c[2],
                 k |-> c[3],
                 eta |-> c[4],
                 loss |-> c[8].name,
                 loss_params |-> ParamDict(c[8]),
                 embedding_model_params |-> ParamDict(c[9]),
                 regularizer |-> c[5].name,
                 regularizer_params |-> ParamDict(c[5]),
                 optimizer |-> c[6],
                 optimizer_params |-> [lr |-> c[7]],
                 verbose |-> verbose]
    IN  IF seed >= 0 THEN base @@ ("seed" :> seed) ELSE base

\* gridsearch_next_hyperparam(model_name, in_dict): the configurations it
\* yields; a KeyError is caught at line 624 (the message is printed and the
\* generator is exhausted), any other exception reaches the consumer.
gridsearch_next_hyperparam ==
    LET loops == NestedLoops(1)
    IN  [items |-> [p \in DOMAIN loops.items |-> out_dict(loops.items[p])],
         end |-> IF loops.end = "KeyError" THEN "done" ELSE loops.end,
         message |-> loops.end = "KeyError"]

\* The keys of a dictionary given as a record of optional values.
DictOf(choice) ==
    [key \in {f \in DOMAIN choice : choice[f].given} |-> choice[key].val]

\* The parameter dictionaries the generator is called with: every key is
\* absent or takes one of a few values.
GridChoices ==
    [batches_count : {NoArg, Arg(<<>>), Arg(<<1>>)},
     epochs : {NoArg, Arg(<<1>>)},
     k : {NoArg, Arg(<<2, 3>>)},
     eta : {NoArg, Arg(<<1>>)},
     regularizer : {NoArg, Arg(<<"L2">>), Arg(<<"None", "L2">>)},
     regularizer_params : {NoArg, Arg(EmptyDict), Arg([lambda |-> <<1, 2>>])},
     optimizer : {NoArg, Arg(<<"adam">>)},
     optimizer_params : {NoArg, Arg(EmptyDict), Arg([lr |-> <<1>>])},
     loss : {NoArg, Arg(<<"nll">>), Arg(<<"pairwise", "nll">>)},
     loss_params : {NoArg, Arg(EmptyDict), Arg([margin |-> <<1, 2>>])},
     embedding_model_params : {NoArg, Arg(EmptyDict)},
     seed : {NoArg, Arg(0)}]

ModelNames == {"ComplEx", "TransE"}

InitGrid ==
    /\ pc = "grid_call"
    /\ \E choice \in GridChoices : in_dict = DictOf(choice)
    /\ model_name \in ModelNames
    /\ use_default_protocol = FALSE
    /\ mrrs = <<>> /\ best_mrr_train = 0 /\ best_model = None
    /\ best_params = NoArg
    /\ X = <<>>
    /\ OtherCallsIdle
    /\ ret = NoArg

\* list(gridsearch_next_hyperparam(model_name, in_dict)): the configurations
\* the consumer gets, and the exception that reaches it, if any.
CallGridsearch ==
    /\ pc = "grid_call"
    /\ pc' = "grid_consumed"
    /\ ret' = [error |-> IF gridsearch_next_hyperparam.end = "done"
                         THEN "ok" ELSE gridsearch_next_hyperparam.end,
               val |-> gridsearch_next_hyperparam.items,
               message |-> gridsearch_next_hyperparam.message]
    /\ UNCHANGED <<X, splitVars, modelVars, evalVars, corrupt_side, corrVars, gridVars>>

\* The three calls of yield_all_permutations the grid search makes
\* (lines 588-595), for the keys the dictionary has.
PermutationCalls ==
    (IF {"regularizer", "regularizer_params"} \subseteq DOMAIN in_dict
     THEN {[registry |-> REGULARIZER_REGISTRY,
            category_type |-> in_dict["regularizer"],
            category_type_params |-> in_dict["regularizer_params"]]}
     ELSE {})
    \cup
    (IF {"loss", "loss_params"} \subseteq DOMAIN in_dict
     THEN {[registry |-> LOSS_REGISTRY,
            category_type |-> in_dict["loss"],
            category_type_params |-> in_dict["loss_params"]]}
     ELSE {})
    \cup
    (IF "embedding_model_params" \in DOMAIN in_dict
     THEN {[registry |-> MODEL_REGISTRY,
            category_type |-> <<model_name>>,
            category_type_params |-> in_dict["embedding_model_params"]]}
     ELSE {})

\* list(yield_all_permutations(registry, category_type, category_type_params))
CallYieldAllPermutations ==
    /\ pc = "grid_call"
    /\ \E call \in PermutationCalls :
        LET g == yield_all_permutations(call.registry, call.category_type,
                                        call.category_type_params)
        IN  ret' = [error |-> IF g.end = "done" THEN "ok" ELSE g.end,
                    val |-> g.items,
                    call |-> call]
    /\ pc' = "perms_consumed"
    /\ UNCHANGED <<X, splitVars, modelVars, evalVars, corrupt_side, corrVars, gridVars>>

NextGrid == CallGridsearch \/ CallYieldAllPermutations

SpecGrid == InitGrid /\ [][NextGrid]_vars

\* The declared parameters of a component that the dictionary has.
PresentOf(registry, name, params) ==
    SelectSeq(registry[name], LAMBDA p : p \in DOMAIN params)

\* What C18 says the call yields: for each name, one tuple per element of
\* the product of the value lists of its parameters that are present.
RECURSIVE PermutationsSkippingMissing(_, _)
PermutationsSkippingMissing(call, i) ==
    IF i > Len(call.category_type) THEN <<>>
    ELSE
        LET name == call.category_type[i]
            present == PresentOf(call.registry, name, call.category_type_params)
            vals == product([q \in DOMAIN present |-> call.category_type_params[present[q]]])
        IN  [t \in DOMAIN vals |->
                [name |-> name, present_params |-> present, val |-> vals[t]]]
            \o PermutationsSkippingMissing(call, i + 1)

\* Some named component declares a parameter the dictionary lacks.
DeclaredParamMissing(call) ==
    \E i \in DOMAIN call.category_type :
        \E q \in DOMAIN call.registry[call.category_type[i]] :
            call.registry[call.category_type[i]][q] \notin DOMAIN call.category_type_params

\* C18 (as claimed): a call of yield_all_permutations in which a component
\* declares a parameter absent from the parameter dictionary does not fail:
\* the parameter is skipped, and the call yields for each component one
\* tuple per element of the product of the value lists of its present
\* parameters (one tuple without parameters when none is present).
C18_MissingParameterSkipped ==
    (pc = "perms_consumed" /\ DeclaredParamMissing(ret.call)) =>
        /\ ret.error = "ok"
        /\ ret.val = PermutationsSkippingMissing(ret.call, 1)

\* What the code does when every declared parameter is present.
C18_AllPresentYieldsProduct ==
    (pc = "perms_consumed" /\ ~DeclaredParamMissing(ret.call)) =>
        /\ ret.error = "ok"
        /\ ret.val = PermutationsSkippingMissing(ret.call, 1)

\* C11 (as claimed): consumed with a dictionary that lacks a required
\* top-level key, gridsearch_next_hyperparam yields no configuration and no
\* exception reaches the consumer.
C11_MissingKeyYieldsNothing ==
    (pc = "grid_consumed" /\ ~(RequiredKeys \subseteq DOMAIN in_dict)) =>
        /\ ret.val = <<>>
        /\ ret.error = "ok"

\* What the code guarantees with a key missing: nothing is yielded, and the
\* only exception that can reach the consumer is the NameError of line 547.
C11_MissingKeyYieldsNothingOrNameError ==
    (pc = "grid_consumed" /\ ~(RequiredKeys \subseteq DOMAIN in_dict)) =>
        /\ ret.val = <<>>
        /\ ret.error \in {"ok", "NameError"}

(***************************************************************************)
(* select_best_model_ranking.  X is X['test'], the selection dataset of    *)
(* the default use_test_for_selection=True; fitting a model and            *)
(* evaluate_performance are calls on collaborators: each evaluation        *)
(* answers some list of ranks.                                             *)
(***************************************************************************)
\* Metric values are kept as integers: MrrScale times the metric.
MrrScale == 48

RECURSIVE SumSeq(_)
SumSeq(s) == IF Len(s) = 0 THEN 0 ELSE Head(s) + SumSeq(Tail(s))

\* mrr_score(ranks): the mean of 1/rank.
mrr_score(rs) == SumSeq([i \in DOMAIN rs |-> MrrScale \div rs[i]]) \div Len(rs)

\* Lines 740-741: the keys whose value must be a non-empty list, and the
\* keys that default to an empty dictionary.
hyperparams_list_keys ==
    <<"batches_count", "epochs", "k", "eta", "loss", "regularizer", "optimizer">>
hyperparams_dict_keys ==
    <<"loss_params", "embedding_model_params", "regularizer_params", "optimizer_params">>

\* Lines 743-746: a list key is missing or holds the empty list.
ListKeyRejected ==
    \E q \in DOMAIN hyperparams_list_keys :
        IF hyperparams_list_keys[q] \notin DOMAIN in_dict THEN TRUE
        ELSE in_dict[hyperparams_list_keys[q]] = <<>>

\* Lines 748-751: param_grid with the missing dictionary keys set to {}.
WithDictDefaults(d) ==
    [key \in DOMAIN d \cup Range(hyperparams_dict_keys) |->
        IF key \in DOMAIN d THEN d[key] ELSE EmptyDict]

\* The parameter grids select_best_model_ranking is called with.
SelectChoices ==
    [batches_count : {NoArg, Arg(<<>>), Arg(<<1>>)},
     epochs : {Arg(<<1>>)},
     k : {Arg(<<2, 3>>)},
     eta : {Arg(<<1>>)},
     regularizer : {Arg(<<"None">>), Arg(<<"L2">>)},
     regularizer_params : {NoArg, Arg([lambda |-> <<1>>])},
     optimizer : {Arg(<<"adam">>)},
     optimizer_params : {NoArg, Arg(EmptyDict), Arg([lr |-> <<>>]),
                         Arg([lr |-> <<1>>]), Arg([lr |-> <<1, 2>>])},
     loss : {Arg(<<"nll">>), Arg(<<"pairwise">>)},
     loss_params : {NoArg, Arg([margin |-> <<>>]), Arg([margin |-> <<1>>])},
     embedding_model_params : {NoArg},
     seed : {NoArg}]

InitSelect ==
    /\ pc = "select_validate"
    /\ \E choice \in SelectChoices : in_dict = DictOf(choice)
    /\ model_name = "ComplEx"
    /\ use_default_protocol \in BOOLEAN
    /\ X = << <<1, 1, 2>> >>
    /\ mrrs = <<>> /\ best_mrr_train = 0 /\ best_model = None
    /\ best_params = NoArg
    /\ OtherCallsIdle
    /\ ret = NoArg

\* Lines 740-764: the up-front validation and the initial best.
SelectValidate ==
    /\ pc = "select_validate"
    /\ \/ /\ ListKeyRejected
          /\ pc' = "raised"
          /\ ret' = Raised("ValueError")
          /\ UNCHANGED in_dict
       \/ /\ ~ListKeyRejected
          /\ "lr" \notin DOMAIN WithDictDefaults(in_dict)["optimizer_params"]
          /\ in_dict' = WithDictDefaults(in_dict)
          /\ pc' = "raised"
          /\ ret' = Raised("ValueError")
       \/ /\ ~ListKeyRejected
          /\ "lr" \in DOMAIN WithDictDefaults(in_dict)["optimizer_params"]
          /\ in_dict' = WithDictDefaults(in_dict)
          /\ pc' = "select_loop"
          /\ UNCHANGED ret
    /\ best_mrr_train' = 0
    /\ best_model' = None
    /\ best_params' = NoArg
    /\ UNCHANGED <<X, splitVars, modelVars, evalVars, corrupt_side, corrVars,
                   model_name, use_default_protocol, mrrs>>

\* The rank lists an evaluation can answer: one rank per triple, and with
\* use_default_protocol the 's' ranks extended by the 'o' ranks.
RankLists ==
    [1..(IF use_default_protocol THEN 2 * Len(X) ELSE Len(X)) -> 1..MaxRank]

\* The tie also replaces the best.
IsBetterOrEqual(curr_mrr, best) == curr_mrr >= best

\* Line 805: if curr_mrr > best_mrr_train
IsBetter(curr_mrr, best) == curr_mrr > best

\* Lines 784-808: one iteration of the loop over the generated
\* configurations: build and fit a model, evaluate it, keep it if better.
SelectEvaluate ==
    /\ pc = "select_loop"
    /\ Len(mrrs) < Len(gridsearch_next_hyperparam.items)
    /\ \E rs \in RankLists :
        LET model_params == gridsearch_next_hyperparam.items[Len(mrrs) + 1]
            model == Len(mrrs) + 1
            curr_mrr == mrr_score(rs)
        IN  /\ mrrs' = Append(mrrs, curr_mrr)
            /\ IF IsBetter(curr_mrr, best_mrr_train)
               THEN /\ best_mrr_train' = curr_mrr
                    /\ best_model' = model
                    /\ best_params' = Arg(model_params)
               ELSE UNCHANGED <<best_mrr_train, best_model, best_params>>
    /\ UNCHANGED <<pc, X, splitVars, modelVars, evalVars, corrupt_side, corrVars,
                   in_dict, model_name, use_default_protocol, ret>>

\* The generator is exhausted, or the exception raised inside it leaves the
\* loop and the function.
SelectExhausted ==
    /\ pc = "select_loop"
    /\ Len(mrrs) = Len(gridsearch_next_hyperparam.items)
    /\ \/ /\ gridsearch_next_hyperparam.end = "done"
          /\ pc' = "select_retrain"
          /\ UNCHANGED ret
       \/ /\ gridsearch_next_hyperparam.end # "done"
          /\ pc' = "raised"
          /\ ret' = Raised(gridsearch_next_hyperparam.end)
    /\ UNCHANGED <<X, splitVars, modelVars, evalVars, corrupt_side, corrVars, gridVars>>

\* Lines 811-823: retrain the best model, evaluate it on the test set and
\* return; best_model.fit on None raises AttributeError.
SelectRetrain ==
    /\ pc = "select_retrain"
    /\ \/ /\ best_model = None
          /\ pc' = "raised"
          /\ ret' = Raised("AttributeError")
       \/ /\ best_model # None
          /\ \E ranks_test \in RankLists :
                ret' = Returned([best_model |-> best_model,
                                 best_params |-> best_params.val,
                                 best_mrr_train |-> best_mrr_train,
                                 ranks_test |-> ranks_test,
                                 mrr_test |-> mrr_score(ranks_test)])
          /\ pc' = "returned"
    /\ UNCHANGED <<X, splitVars, modelVars, evalVars, corrupt_side, corrVars, gridVars>>

NextSelect == SelectValidate \/ SelectEvaluate \/ SelectExhausted \/ SelectRetrain

SpecSelect == InitSelect /\ [][NextSelect]_vars

\* The largest selection MRR so far, and the first configuration with it.
TopMrr == CHOOSE m \in Range(mrrs) : \A x \in Range(mrrs) : x <= m
FirstWithTopMrr == Min({i \in DOMAIN mrrs : mrrs[i] = TopMrr})

\* C16: after any non-empty prefix of the generated configurations has been
\* processed, the tracked best model, parameters and MRR are those of the
\* earliest configuration of the prefix whose selection MRR is the largest of
\* the prefix (a later tie never displaces it), and a call that returns
\* returns that configuration's parameters and selection MRR.
C16_BestIsEarliestMaximum ==
    /\ (pc \in {"select_loop", "select_retrain", "returned"} /\ Len(mrrs) >= 1) =>
        /\ best_model = FirstWithTopMrr
        /\ best_mrr_train = TopMrr
        /\ best_params = Arg(gridsearch_next_hyperparam.items[FirstWithTopMrr])
    /\ pc = "returned" =>
        /\ ret.val.best_model = FirstWithTopMrr
        /\ ret.val.best_mrr_train = TopMrr
        /\ ret.val.best_params = gridsearch_next_hyperparam.items[FirstWithTopMrr]

\* C16 witness: a call returned after the second configuration tied with the
\* first at the top, and a later one did not beat them.
C16_Witness ==
    /\ pc = "returned"
    /\ Len(mrrs) >= 3
    /\ mrrs[2] = mrrs[1]
    /\ mrrs[1] = TopMrr
    /\ ret.val.best_model = 1

\* C17 (as claimed): the retraining step is reached only with a selected
\* best model, and no call ends in the failure of retraining a null model.
C17_RetrainsOnlySelectedModel ==
    /\ pc = "select_retrain" => best_model # None
    /\ pc = "raised" => ret.error # "AttributeError"

\* What the code guarantees: the retraining step has a model exactly when
\* the grid produced at least one configuration.
C17_ModelSelectedIffGridNonEmpty ==
    pc = "select_retrain" => (best_model # None <=> Len(mrrs) >= 1)

====
